---------------------------- MODULE Spec2Model ----------------------------
(***************************************************************************)
(* A model of CBForest's DocEnumerator (src/CBForest/DocEnumerator.cc):   *)
(* a cursor over the documents of a ForestDB key store, by key range, by  *)
(* sequence range or by an explicit list of document IDs.                 *)
(*                                                                         *)
(* The enumerator's members and every method of DocEnumerator.cc are      *)
(* modelled.  The store (ForestDB: fdb_iterator_*, fdb_get) is an external *)
(* collaborator; its operators below follow section 6 of the design.      *)
(* Options::includeDeleted and Options::contentOptions are handed to the  *)
(* store unchanged and select no branch of the enumerator that changes    *)
(* its state, so the model leaves them out.                               *)
(***************************************************************************)
EXTENDS Integers, Naturals, Sequences, FiniteSets, TLC

\* ------------------------------------------------------------------ bounds

\* The key-length ceiling (forestdb.h's FDB_MAX_KEYLEN), scaled down.
FDB_MAX_KEYLEN == 2

\* Width of Options::limit and Options::skip (unsigned), scaled down.
LimitBits == 3

\* Width of a sequence number (uint64_t), scaled down.
SeqBits == 3

\* How many documents one enumerator yields before advance is held back.
MaxFetched == 4

\* How many document buffers can be allocated at the same time.
MaxLive == 3

\* uint8_t arithmetic of nextKey and prevKey.
ByteMod == 256

UINT_MAX == 2^LimitBits - 1

SeqMod == 2^SeqBits

SeqMax == SeqMod - 1

NULL == 0

\* The value of a member that a constructor leaves uninitialized.  No method
\* reads such a member in a condition: TLC would stop on the comparison.
Indeterminate == "indeterminate"

Min(S) == CHOOSE x \in S : \A y \in S : x <= y

Max(S) == CHOOSE x \in S : \A y \in S : x >= y

Reverse(s) == [i \in 1..Len(s) |-> s[Len(s) + 1 - i]]

IsPrefix(s, t) == Len(s) <= Len(t) /\ \A i \in 1..Len(s) : s[i] = t[i]

\* s without its first n entries (all of them when n >= Len(s)).
Drop(s, n) == IF n >= Len(s) THEN << >> ELSE SubSeq(s, n + 1, Len(s))

\* s cut to at most n entries.
Take(s, n) == IF n >= Len(s) THEN s ELSE SubSeq(s, 1, n)

\* -------------------------------------------------------------------- keys

\* The store's key order: bytewise, a proper prefix before its extensions.
\* Negative, zero or positive as a sorts before, with or after b.
KeyCmp(a, b) ==
    LET n == IF Len(a) < Len(b) THEN Len(a) ELSE Len(b)
        diff == {i \in 1..n : a[i] # b[i]}
    IN  IF diff = {} THEN Len(a) - Len(b)
        ELSE a[Min(diff)] - b[Min(diff)]

KeyLE(a, b) == KeyCmp(a, b) <= 0

KeyLT(a, b) == KeyCmp(a, b) < 0

\* The carry loop of nextKey on a full-length key: increment the byte at
\* index i; on overflow to 0 shrink the key by one byte and go left.
RECURSIVE nextKeyCarry(_)
nextKeyCarry(key) ==
    LET i == Len(key)
        b == (key[i] + 1) % ByteMod
    IN  IF b = 0
        THEN IF i - 1 = 0 THEN << >> ELSE nextKeyCarry(SubSeq(key, 1, i - 1))
        ELSE [key EXCEPT ![i] = b]

nextKey(key) ==
    IF Len(key) < FDB_MAX_KEYLEN
    THEN Append(key, 0)
    ELSE nextKeyCarry(key)

\* The borrow loop of prevKey: decrement the byte at index i; when that
\* gives 0xFF go left, stopping in front of the buffer.
RECURSIVE prevKeyBorrow(_, _)
prevKeyBorrow(key, i) ==
    IF i < 1 THEN key
    ELSE LET b == (key[i] - 1) % ByteMod
             k2 == [key EXCEPT ![i] = b]
         IN  IF b = ByteMod - 1 THEN prevKeyBorrow(k2, i - 1) ELSE k2

\* prevKey of an empty key decrements the byte in front of the buffer.
prevKeyOutOfBounds(key) == Len(key) = 0

prevKey(key) ==
    LET k == prevKeyBorrow(key, Len(key))
    IN  [i \in 1..FDB_MAX_KEYLEN |-> IF i <= Len(k) THEN k[i] ELSE ByteMod - 1]

\* ------------------------------------------------------------------- store

\* The set S of documents as a sequence ascending by key (kind "key") or by
\* sequence number (kind "seq").  Keys, and sequences, are unique in a store.
DocBefore(kind, a, b) ==
    IF kind = "key" THEN KeyLT(a.key, b.key) ELSE a.seq < b.seq

RECURSIVE SortDocs(_, _)
SortDocs(kind, S) ==
    IF S = {} THEN << >>
    ELSE LET m == CHOOSE d \in S : \A o \in S \ {d} : DocBefore(kind, d, o)
         IN  << m >> \o SortDocs(kind, S \ {m})

\* A range cursor as the store hands it out: the bounds it was opened
\* with, the documents of the range in ascending order, the position
\* (1-based; 0 when the range is empty), and how many times the handle was
\* closed.
NewIterator(kind, min, max, S) ==
    [kind |-> kind, min |-> min, max |-> max, items |-> SortDocs(kind, S),
     pos |-> IF S = {} THEN 0 ELSE 1, closes |-> 0]

\* Opens a cursor over the keys min <= k <= max; an empty bound is unbounded.
\* The cursor stands at the first document of the range.
fdb_iterator_init(st, minKey, maxKey) ==
    NewIterator("key", minKey, maxKey,
        {d \in st : /\ (Len(minKey) = 0 \/ KeyLE(minKey, d.key))
                    /\ (Len(maxKey) = 0 \/ KeyLE(d.key, maxKey))})

\* Opens a cursor over the sequences minSeq <= s <= maxSeq.
fdb_iterator_sequence_init(st, minSeq, maxSeq) ==
    NewIterator("seq", minSeq, maxSeq, {d \in st : minSeq <= d.seq /\ d.seq <= maxSeq})

fdb_iterator_next(it) ==
    IF it.pos >= 1 /\ it.pos < Len(it.items)
    THEN [status |-> "SUCCESS", it |-> [it EXCEPT !.pos = it.pos + 1]]
    ELSE [status |-> "ITERATOR_FAIL", it |-> it]

fdb_iterator_prev(it) ==
    IF it.pos > 1
    THEN [status |-> "SUCCESS", it |-> [it EXCEPT !.pos = it.pos - 1]]
    ELSE [status |-> "ITERATOR_FAIL", it |-> it]

\* Moves to the last document of the range; fails when the range is empty.
fdb_iterator_seek_to_max(it) ==
    IF Len(it.items) > 0
    THEN [status |-> "SUCCESS", it |-> [it EXCEPT !.pos = Len(it.items)]]
    ELSE [status |-> "ITERATOR_FAIL", it |-> it]

\* Moves to the first document at or after key (higher = TRUE) or the last
\* one at or before it (higher = FALSE); fails when the range holds none.
\* A sequence cursor takes no key.
fdb_iterator_seek(it, key, higher) ==
    LET hit == {i \in 1..Len(it.items) :
                   IF higher THEN KeyLE(key, it.items[i].key)
                   ELSE KeyLE(it.items[i].key, key)}
    IN  IF it.kind # "key" THEN [status |-> "INVALID_ARGS", it |-> it]
        ELSE IF hit = {} THEN [status |-> "ITERATOR_FAIL", it |-> it]
        ELSE [status |-> "SUCCESS",
              it |-> [it EXCEPT !.pos = IF higher THEN Min(hit) ELSE Max(hit)]]

\* The document at the cursor's position; fails when there is none.
fdb_iterator_get(it) ==
    IF it.pos >= 1 /\ it.pos <= Len(it.items)
    THEN [status |-> "SUCCESS", doc |-> it.items[it.pos]]
    ELSE [status |-> "ITERATOR_FAIL", doc |-> NULL]

\* Exact lookup of a document ID.
fdb_get(st, docID) ==
    IF \E d \in st : d.key = docID THEN "SUCCESS" ELSE "KEY_NOT_FOUND"

\* While the store is failing (w.fault) every call to it reports a
\* store-level error, which is neither success nor "no more entries" nor
\* "not found": a cursor call leaves cursor h where it was,
FailingMove(w, h, r) ==
    IF w.fault THEN [status |-> "READ_FAIL", it |-> w.iters[h]] ELSE r

\* a fetch gives no document,
FailingGet(w, r) ==
    IF w.fault THEN [status |-> "READ_FAIL", doc |-> NULL] ELSE r

\* and a lookup or the opening of a cursor gives its status only.
FailingStatus(w, status) ==
    IF w.fault THEN "READ_FAIL" ELSE status

\* -------------------------------------------------------------- enumerator

(***************************************************************************)
(* The methods are operators on a world w: the store w.st, the enumerator *)
(* objects w.en, the cursor handles the store has handed out w.iters (a    *)
(* handle is an index), the heap of document buffers w.docs (a document   *)
(* pointer is the index of a slot), the numbers of store calls w.calls    *)
(* and of buffers freed w.frees by the running method, w.ub, set once a    *)
(* method has run into undefined behaviour, w.leaked, set once a buffer   *)
(* is lost, w.fault, and w.onset, set when the store is to start failing   *)
(* once the running constructor has opened its cursor.  w.abort says how  *)
(* the build resolves undefined behaviour in a constructor: the process   *)
(* is killed (a corrupted heap, a wild pointer) or runs on; w.aborted is  *)
(* set once the process was killed.  A method that                        *)
(* returns a value gives [w, ret], ret                                     *)
(* being "true", "false", "void" or "throw" (check() threw).              *)
(***************************************************************************)

kDefault ==
    [skip |-> 0, limit |-> UINT_MAX, descending |-> FALSE,
     inclusiveStart |-> TRUE, inclusiveEnd |-> TRUE]

\* An object that is not constructed yet.
NoEnumerator ==
    [life |-> "none", iterator |-> NULL, options |-> Indeterminate,
     docIDs |-> << >>, curDocIndex |-> Indeterminate, docP |-> NULL,
     skipStep |-> Indeterminate]

\* A document buffer: what it holds and how many times it was freed.
NewDoc(key, seq, found) ==
    [key |-> key, seq |-> seq, found |-> found, frees |-> 0]

\* A slot of the heap that holds no buffer.
FreeSlot == [key |-> << >>, seq |-> 0, found |-> FALSE, frees |-> -1]

\* The slot the allocator hands out next.
AllocSlot(docs) == Min({i \in DOMAIN docs : docs[i] = FreeSlot})

\* Slot i holds a buffer that no object points to any more.
Unreferenced(w, i) ==
    w.docs[i].frees >= 0 /\ \A e \in DOMAIN w.en : w.en[e].docP # i

\* The heap takes back the buffers that were freed once and that no object
\* points to any more; a buffer freed twice stays, as evidence.  A buffer
\* that was never freed and that no object points to is lost for good: it
\* is taken out of the heap and the leak is recorded.
Collect(w) ==
    [w EXCEPT !.docs = [i \in DOMAIN @ |->
                 IF @[i].frees \in {0, 1} /\ Unreferenced(w, i)
                 THEN FreeSlot ELSE @[i]],
              !.leaked = @ \/ \E i \in DOMAIN w.docs :
                                  w.docs[i].frees = 0 /\ Unreferenced(w, i)]

\* Releases the held document, if any, and forgets it.
freeDoc(w, e) ==
    LET p == w.en[e].docP
    IN  IF p = NULL THEN w
        ELSE [w EXCEPT !.docs[p].frees = @ + 1, !.frees = @ + 1,
                       !.en[e].docP = NULL]

close(w, e) ==
    LET w1 == freeDoc(w, e)
        h == w1.en[e].iterator
    IN  IF h # NULL
        THEN [w1 EXCEPT !.iters[h].closes = @ + 1, !.calls = @ + 1,
                        !.en[e].iterator = NULL]
        ELSE w1

\* getDoc taking every failure of the fetch for the end of the cursor.
getDoc_FailureIsEnd(w, e) ==
    LET w1 == freeDoc(w, e)
        r == FailingGet(w1, fdb_iterator_get(w1.iters[w1.en[e].iterator]))
        w2 == [w1 EXCEPT !.calls = @ + 1]
    IN  IF r.status # "SUCCESS"
        THEN [w |-> close(w2, e), ret |-> "false"]
        ELSE [w |-> [w2 EXCEPT !.docs[AllocSlot(w2.docs)] =
                                   NewDoc(r.doc.key, r.doc.seq, TRUE),
                               !.en[e].docP = AllocSlot(w2.docs)],
              ret |-> "true"]

getDoc(w, e) ==
    LET w1 == freeDoc(w, e)
        r == FailingGet(w1, fdb_iterator_get(w1.iters[w1.en[e].iterator]))
        w2 == [w1 EXCEPT !.calls = @ + 1]
    IN  IF r.status = "ITERATOR_FAIL"
        THEN [w |-> close(w2, e), ret |-> "false"]
        ELSE IF r.status # "SUCCESS"
        THEN [w |-> w2, ret |-> "throw"]
        ELSE [w |-> [w2 EXCEPT !.docs[AllocSlot(w2.docs)] =
                                   NewDoc(r.doc.key, r.doc.seq, TRUE),
                               !.en[e].docP = AllocSlot(w2.docs)],
              ret |-> "true"]

\* The do-while loop of next(): one pass of its body and its condition.
RECURSIVE nextLoop(_, _)
nextLoop(w, e) ==
    LET en == w.en[e]
        moved == FailingMove(w, en.iterator,
                     IF en.options.descending
                     THEN fdb_iterator_prev(w.iters[en.iterator])
                     ELSE fdb_iterator_next(w.iters[en.iterator]))
        w1 == IF en.skipStep
              THEN [w EXCEPT !.en[e].skipStep = FALSE]
              ELSE [w EXCEPT !.iters[en.iterator] = moved.it, !.calls = @ + 1]
    IN  IF ~en.skipStep /\ moved.status = "ITERATOR_FAIL"
        THEN [w |-> close(w1, e), ret |-> "false"]
        ELSE IF ~en.skipStep /\ moved.status # "SUCCESS"
        THEN [w |-> w1, ret |-> "throw"]
        ELSE IF en.options.skip > 0
        THEN nextLoop([w1 EXCEPT !.en[e].options.skip = @ - 1], e)
        ELSE getDoc(w1, e)

\* nextFromArray passing every status but success to check().
nextFromArray_ChecksNotFound(w, e) ==
    LET en == w.en[e]
        w1 == freeDoc(w, e)
        docID == en.docIDs[en.curDocIndex + 1]
        status == FailingStatus(w, fdb_get(w.st, docID))
        w2 == [w1 EXCEPT !.en[e].curDocIndex = @ + 1,
                         !.docs[AllocSlot(w1.docs)] =
                             NewDoc(docID, 0, status = "SUCCESS"),
                         !.en[e].docP = AllocSlot(w1.docs),
                         !.calls = @ + 1]
    IN  IF en.curDocIndex >= Len(en.docIDs)
        THEN [w |-> close(w, e), ret |-> "false"]
        ELSE IF status # "SUCCESS"
        THEN [w |-> w2, ret |-> "throw"]
        ELSE [w |-> w2, ret |-> "true"]

\* implementation of next() when enumerating a vector of keys
nextFromArray(w, e) ==
    LET en == w.en[e]
        w1 == freeDoc(w, e)
        docID == en.docIDs[en.curDocIndex + 1]
        status == FailingStatus(w, fdb_get(w.st, docID))
        w2 == [w1 EXCEPT !.en[e].curDocIndex = @ + 1,
                         !.docs[AllocSlot(w1.docs)] =
                             NewDoc(docID, 0, status = "SUCCESS"),
                         !.en[e].docP = AllocSlot(w1.docs),
                         !.calls = @ + 1]
    IN  IF en.curDocIndex >= Len(en.docIDs)
        THEN [w |-> close(w, e), ret |-> "false"]
        ELSE IF status \notin {"SUCCESS", "KEY_NOT_FOUND"}
        THEN [w |-> w2, ret |-> "throw"]
        ELSE [w |-> w2, ret |-> "true"]

\* next() counting its limit down before it looks at the ID list.
next_LimitBeforeArray(w, e) ==
    LET en == w.en[e]
        w1 == [w EXCEPT !.en[e].options.limit = (@ - 1) % (UINT_MAX + 1)]
    IN  IF Len(en.docIDs) > 0 /\ en.options.limit = 0
        THEN [w |-> close(w1, e), ret |-> "false"]
        ELSE IF Len(en.docIDs) > 0 THEN nextFromArray(w1, e)
        ELSE IF en.iterator = NULL THEN [w |-> w, ret |-> "false"]
        ELSE IF en.options.limit = 0
        THEN [w |-> close(w1, e), ret |-> "false"]
        ELSE nextLoop(w1, e)

\* next() testing "--limit == 0" in place of "limit-- == 0".
next_PreDecrement(w, e) ==
    LET en == w.en[e]
        w1 == [w EXCEPT !.en[e].options.limit = (@ - 1) % (UINT_MAX + 1)]
    IN  IF Len(en.docIDs) > 0 THEN nextFromArray(w, e)
        ELSE IF en.iterator = NULL THEN [w |-> w, ret |-> "false"]
        ELSE IF w1.en[e].options.limit = 0
        THEN [w |-> close(w1, e), ret |-> "false"]
        ELSE nextLoop(w1, e)

next(w, e) ==
    LET en == w.en[e]
        w1 == [w EXCEPT !.en[e].options.limit = (@ - 1) % (UINT_MAX + 1)]
    IN  IF Len(en.docIDs) > 0 THEN nextFromArray(w, e)
        ELSE IF en.iterator = NULL THEN [w |-> w, ret |-> "false"]
        ELSE IF en.options.limit = 0
        THEN [w |-> close(w1, e), ret |-> "false"]
        ELSE nextLoop(w1, e)

\* seek setting the limit back to "no limit".
seek_ResetsLimit(w, e, key) ==
    LET en == w.en[e]
        w1 == freeDoc(w, e)
        r == FailingMove(w1, en.iterator,
                 fdb_iterator_seek(w1.iters[en.iterator], key,
                                   ~en.options.descending))
        w2 == [w1 EXCEPT !.iters[en.iterator] = r.it, !.calls = @ + 1]
    IN  IF en.iterator = NULL THEN [w |-> w, ret |-> "void"]
        ELSE IF r.status = "ITERATOR_FAIL"
        THEN [w |-> close(w2, e), ret |-> "void"]
        ELSE IF r.status # "SUCCESS"
        THEN [w |-> w2, ret |-> "throw"]
        ELSE [w |-> [w2 EXCEPT !.en[e].skipStep = TRUE,
                               !.en[e].options.limit = UINT_MAX],
              ret |-> "void"]

\* seek releasing the held document before it looks at the cursor.
seek_FreesFirst(w, e, key) ==
    LET en == w.en[e]
        w1 == freeDoc(w, e)
        r == FailingMove(w1, en.iterator,
                 fdb_iterator_seek(w1.iters[en.iterator], key,
                                   ~en.options.descending))
        w2 == [w1 EXCEPT !.iters[en.iterator] = r.it, !.calls = @ + 1]
    IN  IF en.iterator = NULL THEN [w |-> w1, ret |-> "void"]
        ELSE IF r.status = "ITERATOR_FAIL"
        THEN [w |-> close(w2, e), ret |-> "void"]
        ELSE IF r.status # "SUCCESS"
        THEN [w |-> w2, ret |-> "throw"]
        ELSE [w |-> [w2 EXCEPT !.en[e].skipStep = TRUE], ret |-> "void"]

\* seek without its freeDoc().
seek_KeepsDoc(w, e, key) ==
    LET en == w.en[e]
        r == FailingMove(w, en.iterator,
                 fdb_iterator_seek(w.iters[en.iterator], key,
                                   ~en.options.descending))
        w2 == [w EXCEPT !.iters[en.iterator] = r.it, !.calls = @ + 1]
    IN  IF en.iterator = NULL THEN [w |-> w, ret |-> "void"]
        ELSE IF r.status = "ITERATOR_FAIL"
        THEN [w |-> close(w2, e), ret |-> "void"]
        ELSE IF r.status # "SUCCESS"
        THEN [w |-> w2, ret |-> "throw"]
        ELSE [w |-> [w2 EXCEPT !.en[e].skipStep = TRUE], ret |-> "void"]

seek(w, e, key) ==
    LET en == w.en[e]
        w1 == freeDoc(w, e)
        r == FailingMove(w1, en.iterator,
                 fdb_iterator_seek(w1.iters[en.iterator], key,
                                   ~en.options.descending))
        w2 == [w1 EXCEPT !.iters[en.iterator] = r.it, !.calls = @ + 1]
    IN  IF en.iterator = NULL THEN [w |-> w, ret |-> "void"]
        ELSE IF r.status = "ITERATOR_FAIL"
        THEN [w |-> close(w2, e), ret |-> "void"]
        ELSE IF r.status # "SUCCESS"
        THEN [w |-> w2, ret |-> "throw"]
        ELSE [w |-> [w2 EXCEPT !.en[e].skipStep = TRUE], ret |-> "void"]

\* initialPosition without the seek to the maximum.
initialPosition_NoSeek(w, e) == w

\* The error of fdb_iterator_seek_to_max is ignored.
initialPosition(w, e) ==
    LET en == w.en[e]
    IN  IF en.options.descending
        THEN [w EXCEPT !.iters[en.iterator] =
                           FailingMove(w, en.iterator,
                                       fdb_iterator_seek_to_max(@)).it,
                       !.calls = @ + 1]
        ELSE w

\* Key-range constructor.  When check() throws the object does not come to
\* exist: it stays as it was.  prevKey of the empty key writes in front of
\* the heap buffer: the process is killed when the buffer is deleted, after
\* the cursor was opened, or it runs on with a maximum key of FF bytes.
KeyRangeCtor(w, e, startKey, endKey, options) ==
    LET minKey0 == IF options.descending THEN endKey ELSE startKey
        maxKey0 == IF options.descending THEN startKey ELSE endKey
        inclusiveMin == IF options.descending THEN options.inclusiveEnd
                        ELSE options.inclusiveStart
        inclusiveMax == IF options.descending THEN options.inclusiveStart
                        ELSE options.inclusiveEnd
        minKey == IF ~inclusiveMin THEN nextKey(minKey0) ELSE minKey0
        maxKey == IF ~inclusiveMax THEN prevKey(maxKey0) ELSE maxKey0
        outOfBounds == ~inclusiveMax /\ prevKeyOutOfBounds(maxKey0)
        w1 == [w EXCEPT
                 !.iters = Append(@, fdb_iterator_init(w.st, minKey, maxKey)),
                 !.calls = @ + 1,
                 !.fault = @ \/ w.onset,
                 !.ub = @ \/ outOfBounds,
                 !.en[e] = [life |-> "alive", iterator |-> Len(w.iters) + 1,
                            options |-> options, docIDs |-> << >>,
                            curDocIndex |-> Indeterminate, docP |-> NULL,
                            skipStep |-> TRUE]]
        status == FailingStatus(w, "SUCCESS")
    IN  IF outOfBounds /\ w.abort
        THEN [w EXCEPT !.calls = @ + 1, !.ub = TRUE, !.aborted = TRUE]
        ELSE IF status # "SUCCESS"
        THEN [w EXCEPT !.calls = @ + 1, !.ub = w1.ub]
        ELSE initialPosition(w1, e)

\* Sequence-range constructor
SeqRangeCtor(w, e, start, end, options) ==
    LET minSeq0 == IF options.descending THEN end ELSE start
        maxSeq0 == IF options.descending THEN start ELSE end
        inclusiveMin == IF options.descending THEN options.inclusiveEnd
                        ELSE options.inclusiveStart
        inclusiveMax == IF options.descending THEN options.inclusiveStart
                        ELSE options.inclusiveEnd
        minSeq == IF ~inclusiveMin THEN (minSeq0 + 1) % SeqMod ELSE minSeq0
        maxSeq == IF ~inclusiveMax THEN (maxSeq0 - 1) % SeqMod ELSE maxSeq0
        obj == [life |-> "alive", iterator |-> NULL,
                options |-> options, docIDs |-> << >>,
                curDocIndex |-> Indeterminate, docP |-> NULL,
                skipStep |-> TRUE]
        w1 == [w EXCEPT
                 !.iters = Append(@, fdb_iterator_sequence_init(w.st, minSeq, maxSeq)),
                 !.calls = @ + 1,
                 !.fault = @ \/ w.onset,
                 !.en[e] = [obj EXCEPT !.iterator = Len(w.iters) + 1]]
        status == FailingStatus(w, "SUCCESS")
    IN  IF minSeq > maxSeq
        THEN [w EXCEPT !.en[e] = obj]
        ELSE IF status # "SUCCESS"
        THEN [w EXCEPT !.calls = @ + 1]
        ELSE initialPosition(w1, e)

\* The key-array constructor reversing the list before it applies skip and
\* limit.
KeyArrayCtor_ReverseFirst(w, e, docIDs, options, erased) ==
    LET ids0 == IF options.descending THEN Reverse(docIDs) ELSE docIDs
        ids1 == IF options.skip > 0
                THEN IF options.skip <= Len(ids0)
                     THEN Drop(ids0, options.skip)
                     ELSE erased
                ELSE ids0
        ids2 == IF options.limit < Len(ids1) THEN Take(ids1, options.limit)
                ELSE ids1
    IN  IF options.skip > Len(docIDs) /\ w.abort
        THEN [w EXCEPT !.ub = TRUE, !.aborted = TRUE]
        ELSE
        [w EXCEPT
           !.ub = @ \/ options.skip > Len(docIDs),
           !.en[e] = [life |-> "alive", iterator |-> NULL,
                      options |-> options, docIDs |-> ids2,
                      curDocIndex |-> 0, docP |-> NULL,
                      skipStep |-> Indeterminate]]

\* Key-array constructor.  vector::erase of a range that ends past the end
\* of the vector is undefined: it destroys strings outside the vector and
\* the process is killed, or it runs on and erased is what it left of the
\* list.
KeyArrayCtor(w, e, docIDs, options, erased) ==
    LET ids1 == IF options.skip > 0
                THEN IF options.skip <= Len(docIDs)
                     THEN Drop(docIDs, options.skip)
                     ELSE erased
                ELSE docIDs
        ids2 == IF options.limit < Len(ids1) THEN Take(ids1, options.limit)
                ELSE ids1
        ids3 == IF options.descending THEN Reverse(ids2) ELSE ids2
    IN  IF options.skip > Len(docIDs) /\ w.abort
        THEN [w EXCEPT !.ub = TRUE, !.aborted = TRUE]
        ELSE
        [w EXCEPT
           !.ub = @ \/ options.skip > Len(docIDs),
           !.en[e] = [life |-> "alive", iterator |-> NULL,
                      options |-> options, docIDs |-> ids3,
                      curDocIndex |-> 0, docP |-> NULL,
                      skipStep |-> Indeterminate]]

\* Empty constructor
EmptyCtor(w, e) ==
    [w EXCEPT !.en[e] = [NoEnumerator EXCEPT !.life = "alive"]]

\* The move constructor without "e._iterator = NULL".
MoveCtor_KeepsHandle(w, e, from) ==
    [w EXCEPT !.en[e] = w.en[from],
              !.en[from].docP = NULL]

\* Move constructor
MoveCtor(w, e, from) ==
    [w EXCEPT !.en[e] = w.en[from],
              !.en[from].iterator = NULL,
              !.en[from].docP = NULL]

\* Assignment from a temporary: the members are overwritten one by one.
\* The code does not check for an assignment of an object to itself: the
\* object then loses its cursor and its document without releasing them.
MoveAssign(w, e, from) ==
    [w EXCEPT !.en[e] = w.en[from],
              !.en[from].iterator = NULL,
              !.en[from].docP = NULL]

Destructor(w, e) ==
    [close(w, e) EXCEPT !.en[e].life = "dead"]

\* ------------------------------------------------------------------- state

VARIABLES
    st,     \* the store's documents
    en,     \* the enumerator objects
    iters,  \* the cursor handles opened so far
    docs,   \* the heap of document buffers
    ub,     \* a method has run into undefined behaviour
    leaked, \* a document buffer was lost without being freed
    fault,  \* the store is failing: its calls report a store-level error
    args,   \* per object: the arguments it was constructed with
    trail,  \* per object: "close" and "move" once it has been through one,
            \* "idle" while its latest operation is a close or a move from it,
            \* "seek" once seek was called on it while it had been through
            \* neither, and "seek2" once it was called again
    hist,   \* per object: the documents (key and sequence) it yielded since
            \* it was made, closed or moved
    last    \* the latest operation: its object, its argument, its result

vars == << st, en, iters, docs, ub, leaked, fault, args, trail, hist, last >>

\* The enumerator objects.  A method involves at most two of them: its own
\* object and, for a move, the object moved from.
Enums == {1, 2}

W ==
    [st |-> st, en |-> en, iters |-> iters, docs |-> docs, calls |-> 0,
     frees |-> 0, ub |-> ub, leaked |-> leaked, fault |-> fault,
     onset |-> FALSE, abort |-> FALSE, aborted |-> FALSE]

NoArgs ==
    [mode |-> "none", start |-> << >>, end |-> << >>, options |-> kDefault,
     ids |-> << >>]

NoOp ==
    [op |-> "init", e |-> 0, key |-> << >>, ret |-> "void", calls |-> 0,
     frees |-> 0, again |-> FALSE]

InitWith(stores) ==
    /\ st \in stores
    /\ en = [e \in Enums |-> NoEnumerator]
    /\ iters = << >>
    /\ docs = [i \in 1..MaxLive |-> FreeSlot]
    /\ ub = FALSE
    /\ leaked = FALSE
    /\ fault = FALSE
    /\ args = [e \in Enums |-> NoArgs]
    /\ trail = [e \in Enums |-> {}]
    /\ hist = [e \in Enums |-> << >>]
    /\ last = NoOp

\* The document object e holds, as the store's [key, seq].
Held(w, e) ==
    [key |-> w.docs[w.en[e].docP].key, seq |-> w.docs[w.en[e].docP].seq]

\* The world after an operation on object e, and the record of it: the
\* operation, its key argument, its result, the store calls it made, the
\* buffers it freed, and whether the object was idle before.  A process
\* that was killed runs no operation.
Step(w2, op, e, key, ret) ==
    /\ last.ret # "abort"
    /\ en' = w2.en
    /\ iters' = w2.iters
    /\ docs' = Collect(w2).docs
    /\ ub' = w2.ub
    /\ leaked' = Collect(w2).leaked
    /\ last' = [op |-> op, e |-> e, key |-> key, ret |-> ret,
                calls |-> w2.calls, frees |-> w2.frees,
                again |-> "idle" \in trail[e]]
    /\ fault' = w2.fault
    /\ UNCHANGED st

\* What a constructor call gave: the object, or an exception and no object,
\* or the end of the process.
Thrown(w2, e) ==
    IF w2.aborted THEN "abort"
    ELSE IF w2.en[e].life = "alive" THEN "void" ELSE "throw"

ConstructKeyRange(e, startKey, endKey, options) ==
    /\ en[e].life = "none"
    /\ \E abort \in BOOLEAN :
         LET w2 == KeyRangeCtor([W EXCEPT !.abort = abort], e, startKey,
                                endKey, options)
         IN  Step(w2, "ctor", e, << >>, Thrown(w2, e))
    /\ args' = [args EXCEPT ![e] = [mode |-> "key", start |-> startKey,
                                    end |-> endKey, options |-> options,
                                    ids |-> << >>]]
    /\ UNCHANGED << trail, hist >>

ConstructSeqRange(e, start, end, options) ==
    /\ en[e].life = "none"
    /\ LET w2 == SeqRangeCtor(W, e, start, end, options)
       IN  Step(w2, "ctor", e, << >>, Thrown(w2, e))
    /\ args' = [args EXCEPT ![e] = [mode |-> "seq", start |-> start,
                                    end |-> end, options |-> options,
                                    ids |-> << >>]]
    /\ UNCHANGED << trail, hist >>

\* The range constructors over a store that starts to fail once the cursor
\* is open.
ConstructKeyRangeOnset(e, startKey, endKey, options) ==
    /\ en[e].life = "none"
    /\ ~fault
    /\ \E abort \in BOOLEAN :
         LET w2 == KeyRangeCtor([W EXCEPT !.onset = TRUE, !.abort = abort], e,
                                startKey, endKey, options)
         IN  Step(w2, "ctor", e, << >>, Thrown(w2, e))
    /\ args' = [args EXCEPT ![e] = [mode |-> "key", start |-> startKey,
                                    end |-> endKey, options |-> options,
                                    ids |-> << >>]]
    /\ UNCHANGED << trail, hist >>

ConstructSeqRangeOnset(e, start, end, options) ==
    /\ en[e].life = "none"
    /\ ~fault
    /\ LET w2 == SeqRangeCtor([W EXCEPT !.onset = TRUE], e, start, end, options)
       IN  Step(w2, "ctor", e, << >>, Thrown(w2, e))
    /\ args' = [args EXCEPT ![e] = [mode |-> "seq", start |-> start,
                                    end |-> end, options |-> options,
                                    ids |-> << >>]]
    /\ UNCHANGED << trail, hist >>

ConstructKeyArray(e, docIDs, options) ==
    /\ en[e].life = "none"
    /\ \E abort \in BOOLEAN :
       \E erased \in IF options.skip > Len(docIDs) THEN {<< >>, docIDs} ELSE {<< >>} :
         LET w2 == KeyArrayCtor([W EXCEPT !.abort = abort], e, docIDs, options,
                                erased)
         IN  Step(w2, "ctor", e, << >>, Thrown(w2, e))
    /\ args' = [args EXCEPT ![e] = [mode |-> "list", start |-> << >>,
                                    end |-> << >>, options |-> options,
                                    ids |-> docIDs]]
    /\ UNCHANGED << trail, hist >>

ConstructEmpty(e) ==
    /\ en[e].life = "none"
    /\ Step(EmptyCtor(W, e), "ctor", e, << >>, "void")
    /\ args' = [args EXCEPT ![e] = [NoArgs EXCEPT !.mode = "empty"]]
    /\ UNCHANGED << trail, hist >>

MoveConstruct(e, from) ==
    /\ en[e].life = "none"
    /\ en[from].life = "alive"
    /\ Step(MoveCtor(W, e, from), "movector", e, << >>, "void")
    /\ args' = [args EXCEPT ![e] = args[from]]
    /\ trail' = [trail EXCEPT ![e] = (trail[from] \ {"idle", "seek", "seek2"}) \cup {"move"},
                              ![from] = (@ \ {"seek", "seek2"}) \cup {"move", "idle"}]
    /\ hist' = [hist EXCEPT ![e] = << >>, ![from] = << >>]

MoveAssignment(e, from) ==
    /\ en[e].life = "alive"
    /\ en[from].life = "alive"
    /\ Step(MoveAssign(W, e, from), "moveassign", e, << >>, "void")
    /\ args' = [args EXCEPT ![e] = args[from]]
    /\ trail' = [trail EXCEPT ![e] = (trail[from] \ {"idle", "seek", "seek2"}) \cup {"move"},
                              ![from] = (@ \ {"seek", "seek2"}) \cup {"move", "idle"}]
    /\ hist' = [hist EXCEPT ![e] = << >>, ![from] = << >>]

Destroy(e) ==
    /\ en[e].life = "alive"
    /\ Step(Destructor(W, e), "dtor", e, << >>, "void")
    /\ hist' = [hist EXCEPT ![e] = << >>]
    /\ UNCHANGED << args, trail >>

Close(e) ==
    /\ en[e].life = "alive"
    /\ Step(close(W, e), "close", e, << >>, "void")
    /\ trail' = [trail EXCEPT ![e] = (@ \ {"seek", "seek2"}) \cup {"close", "idle"}]
    /\ hist' = [hist EXCEPT ![e] = << >>]
    /\ UNCHANGED args

\* next() counts _options.limit down on every call that finds the cursor
\* open, also on a call that then throws.  UINT_MAX stands for the code's
\* 2^32 - 1, which no run uses up: an enumerator made without a limit is
\* advanced only while its counter stays above 0.
Advance(e) ==
    /\ en[e].life = "alive"
    /\ Len(hist[e]) < MaxFetched
    /\ (/\ en[e].iterator # NULL
        /\ en[e].docIDs = << >>
        /\ args[e].options.limit = UINT_MAX) => en[e].options.limit > 1
    /\ \E i \in DOMAIN docs : docs[i] = FreeSlot
    /\ LET r == next(W, e)
       IN  /\ Step(r.w, "next", e, << >>, r.ret)
           /\ hist' = IF r.ret = "true"
                      THEN [hist EXCEPT ![e] = Append(@, Held(r.w, e))]
                      ELSE hist
    /\ trail' = [trail EXCEPT ![e] = @ \ {"idle"}]
    /\ UNCHANGED args

Seek(e, key) ==
    /\ en[e].life = "alive"
    /\ LET r == seek(W, e, key) IN Step(r.w, "seek", e, key, r.ret)
    /\ trail' = [trail EXCEPT ![e] = (@ \ {"idle"}) \cup
                      (IF @ \cap {"close", "move"} # {} THEN {}
                       ELSE IF "seek" \in @ THEN {"seek2"} ELSE {"seek"})]
    /\ UNCHANGED << args, hist >>

\* The store starts to fail: an I/O error, a corruption.
Fail ==
    /\ last.ret # "abort"
    /\ ~fault
    /\ fault' = TRUE
    /\ last' = [NoOp EXCEPT !.op = "fail"]
    /\ UNCHANGED << st, en, iters, docs, ub, leaked, args, trail, hist >>

\* The store works again.
Recover ==
    /\ last.ret # "abort"
    /\ fault
    /\ fault' = FALSE
    /\ last' = [NoOp EXCEPT !.op = "recover"]
    /\ UNCHANGED << st, en, iters, docs, ub, leaked, args, trail, hist >>

\* ------------------------------------------------------------------ inputs

DA == [key |-> << 0 >>, seq |-> 2]

DB == [key |-> << 1 >>, seq |-> 1]

DC == [key |-> << 1, 0 >>, seq |-> 3]

DD == [key |-> << 2 >>, seq |-> SeqMax]

Opts(skip, limit, descending, inclusiveStart, inclusiveEnd) ==
    [skip |-> skip, limit |-> limit, descending |-> descending,
     inclusiveStart |-> inclusiveStart, inclusiveEnd |-> inclusiveEnd]

\* ---------------------------------------------------- life cycle (Spec)

Init == InitWith({{DA}})

LifeOptions == {kDefault}

Next ==
    \E e \in Enums :
        \/ \E o \in LifeOptions : ConstructKeyRange(e, << >>, << 1 >>, o)
        \/ \E o \in LifeOptions : ConstructSeqRange(e, 1, SeqMax, o)
        \/ \E o \in LifeOptions : ConstructKeyArray(e, << << 0 >>, << 2 >> >>, o)
        \/ ConstructEmpty(e)
        \/ \E from \in Enums : MoveConstruct(e, from)
        \/ \E from \in Enums : MoveAssignment(e, from)
        \/ Destroy(e)
        \/ Close(e)
        \/ Advance(e)
        \/ Seek(e, << 1 >>)

Spec == Init /\ [][Next]_vars

\* The objects that hold cursor handle h.
Holders(h) == {e \in Enums : en[e].iterator = h}

Handles == 1..Len(iters)

\* C5: no two enumerators ever hold the same cursor handle, no handle is
\* closed twice, and once every enumerator that was made is destroyed each
\* handle that was opened has been closed exactly once.
C5_HandleClosedExactlyOnce ==
    /\ \A h \in Handles : Cardinality(Holders(h)) <= 1
    /\ \A h \in Handles : iters[h].closes <= 1
    /\ (\A e \in Enums : en[e].life # "alive")
           => \A h \in Handles : iters[h].closes = 1

\* C6: an advance of an enumerator on which close() has been called returns
\* false, makes no store call, holds no document and raises no error.
C6_AdvanceAfterCloseIsNoOp ==
    (last.op = "next" /\ "close" \in trail[last.e])
        => /\ last.ret = "false"
           /\ last.calls = 0
           /\ en[last.e].docP = NULL

\* C7: a close() or a destruction of an enumerator whose latest operation
\* was a close(), or a move from it, touches no cursor handle and frees no
\* document; no handle is ever closed twice and no document freed twice.
C7_SecondCloseDoesNothing ==
    (last.op \in {"close", "dtor"} /\ last.again)
        => /\ last.calls = 0
           /\ last.frees = 0
           /\ \A h \in Handles : iters[h].closes <= 1
           /\ \A i \in DOMAIN docs : docs[i].frees <= 1

\* The source of a move is destroyed while the object it was moved into
\* holds the handle and the document the source held.
C7_Witness ==
    /\ last.op = "dtor"
    /\ last.again
    /\ "move" \in trail[last.e]
    /\ \E e \in Enums : /\ e # last.e
                        /\ en[e].iterator # NULL
                        /\ en[e].docP # NULL
                        /\ iters[en[e].iterator].closes = 0

\* ------------------------------------------- range enumeration (SpecRange)

Skips == {0, 1, 2}

Limits == {0, 1, 2, UINT_MAX}

RangeOptions ==
    {Opts(s, l, d, i, j) : s \in Skips, l \in Limits,
                           d \in BOOLEAN, i \in BOOLEAN, j \in BOOLEAN}

RangeStores == SUBSET {DA, DB, DC} \cup {{DD}, {DA, DD}, {DA, DB, DC, DD}}

BoundKeys == {<< 0 >>, << 0, 0 >>, << 1 >>, << 1, 0 >>, << 2 >>}

BoundSeqs == {0, 1, 2, 3, SeqMax}

InitRange == InitWith(RangeStores)

NextRange ==
    \/ \E s \in BoundKeys, t \in BoundKeys, o \in RangeOptions :
           ConstructKeyRange(1, s, t, o)
    \/ \E s \in BoundSeqs, t \in BoundSeqs, o \in RangeOptions :
           ConstructSeqRange(1, s, t, o)
    \/ Advance(1)

SpecRange == InitRange /\ [][NextRange]_vars

\* A world with the store and nothing else.
FreshWorld ==
    [st |-> st, en |-> [e \in Enums |-> NoEnumerator], iters |-> << >>,
     docs |-> [i \in 1..MaxLive |-> FreeSlot], calls |-> 0, frees |-> 0,
     ub |-> FALSE, leaked |-> FALSE, fault |-> FALSE, onset |-> FALSE,
     abort |-> FALSE, aborted |-> FALSE]

\* The documents successive next() calls yield until one does not return true.
RECURSIVE Drain(_, _)
Drain(w, e) ==
    LET r == next(w, e)
    IN  IF r.ret = "true"
        THEN << Held(r.w, e) >> \o Drain(Collect(r.w), e)
        ELSE << >>

\* What a range enumerator made with the arguments a yields when it is
\* advanced to its end.
Yield(a) ==
    Drain(IF a.mode = "key"
          THEN KeyRangeCtor(FreshWorld, 1, a.start, a.end, a.options)
          ELSE SeqRangeCtor(FreshWorld, 1, a.start, a.end, a.options), 1)

\* Object e was made by a range constructor and has only been advanced.
OnlyAdvanced(e) == args[e].mode \in {"key", "seq"} /\ trail[e] = {}

\* e's latest advance, if it is the latest operation, returned false.
AtEnd(e) == last.op = "next" /\ last.e = e /\ last.ret = "false"

\* C1: a range enumerator with skip s and limit l yields what the same
\* enumerator with skip 0 and no limit yields, without its first s entries
\* and cut to at most l; the advance after the last of them returns false.
C1_SkipLimitWindow ==
    \A e \in Enums : OnlyAdvanced(e) =>
        LET o == args[e].options
            full == Yield([args[e] EXCEPT !.options.skip = 0,
                                          !.options.limit = UINT_MAX])
            want == Take(Drop(full, o.skip), o.limit)
        IN  /\ IsPrefix(hist[e], want)
            /\ AtEnd(e) => hist[e] = want
            /\ (last.op = "next" /\ last.e = e) => last.ret \in {"true", "false"}

\* Skip 1 and limit 2 over three or more documents: two yielded, then false.
C1_Witness ==
    /\ OnlyAdvanced(1)
    /\ args[1].options.skip = 1
    /\ args[1].options.limit = 2
    /\ Len(hist[1]) = 2
    /\ AtEnd(1)
    /\ Len(Yield([args[1] EXCEPT !.options.skip = 0,
                                 !.options.limit = UINT_MAX])) > 3

\* C2: an ascending key-range enumerator with non-empty start and end keys
\* and inclusiveStart yields keys in non-decreasing order, each at or after
\* start and before end (at or before end when inclusiveEnd).
C2_AscendingKeysWithinBounds ==
    \A e \in Enums :
        (/\ OnlyAdvanced(e)
         /\ args[e].mode = "key"
         /\ ~args[e].options.descending
         /\ args[e].options.inclusiveStart
         /\ Len(args[e].start) \in 1..FDB_MAX_KEYLEN
         /\ Len(args[e].end) \in 1..FDB_MAX_KEYLEN)
        => \A i \in 1..Len(hist[e]) :
              /\ KeyLE(args[e].start, hist[e][i].key)
              /\ IF args[e].options.inclusiveEnd
                 THEN KeyLE(hist[e][i].key, args[e].end)
                 ELSE KeyLT(hist[e][i].key, args[e].end)
              /\ i > 1 => KeyLE(hist[e][i - 1].key, hist[e][i].key)

\* Sequence s lies within the bounds the arguments a state.
SeqInBounds(a, s) ==
    /\ IF a.options.inclusiveStart THEN a.start <= s ELSE a.start < s
    /\ IF a.options.inclusiveEnd THEN s <= a.end ELSE s < a.end

\* C3: an ascending sequence-range enumerator yields exactly the stored
\* sequences within its bounds, in increasing order; when no sequence can
\* lie within them no cursor is opened and the first advance returns false.
C3_SequenceRangeExact ==
    \A e \in Enums :
        (/\ OnlyAdvanced(e)
         /\ args[e].mode = "seq"
         /\ ~args[e].options.descending
         /\ args[e].options.skip = 0
         /\ args[e].options.limit = UINT_MAX)
        => LET want == SortDocs("seq", {d \in st : SeqInBounds(args[e], d.seq)})
           IN  /\ IsPrefix(hist[e], want)
               /\ AtEnd(e) => hist[e] = want
               /\ (\A s \in 0..SeqMax : ~SeqInBounds(args[e], s))
                      => /\ iters = << >>
                         /\ (last.op = "next" /\ last.e = e) => last.ret = "false"

\* The ascending arguments for the bounds of the descending arguments a.
Ascending(a) ==
    [a EXCEPT !.start = a.end, !.end = a.start,
              !.options.descending = FALSE,
              !.options.inclusiveStart = a.options.inclusiveEnd,
              !.options.inclusiveEnd = a.options.inclusiveStart]

\* C4: with skip 0 and no limit, a descending range enumerator from hi down
\* to lo, lo <= hi, yields the reverse of what the ascending enumerator over
\* the same bounds, with the same inclusivity of each bound, yields.
C4_DescendingIsReverse ==
    \A e \in Enums :
        (/\ OnlyAdvanced(e)
         /\ args[e].options.descending
         /\ args[e].options.skip = 0
         /\ args[e].options.limit = UINT_MAX
         /\ IF args[e].mode = "key" THEN KeyLE(args[e].end, args[e].start)
            ELSE args[e].end <= args[e].start)
        => LET want == Reverse(Yield(Ascending(args[e])))
           IN  /\ IsPrefix(hist[e], want)
               /\ AtEnd(e) => hist[e] = want

\* A descending key enumeration of two or more documents has ended, its
\* upper bound key not being stored.
C4_Witness ==
    /\ OnlyAdvanced(1)
    /\ args[1].mode = "key"
    /\ args[1].options.descending
    /\ args[1].options.skip = 0
    /\ args[1].options.limit = UINT_MAX
    /\ KeyLE(args[1].end, args[1].start)
    /\ \A d \in st : d.key # args[1].start
    /\ Len(hist[1]) >= 2
    /\ AtEnd(1)

\* ------------------------------------------------ repositioning (SpecSeek)

SeekOptions ==
    {Opts(s, l, d, TRUE, TRUE) : s \in {0, 1}, l \in Limits, d \in BOOLEAN}

SeekStores == {{DA, DB, DC}, {DA, DD}, {DB}}

SeekKeys == {<< 0 >>, << 1 >>, << 2 >>}

InitSeek == InitWith(SeekStores)

NextSeek ==
    \/ \E s \in SeekKeys, t \in SeekKeys, o \in SeekOptions :
           ConstructKeyRange(1, s, t, o)
    \/ \E o \in SeekOptions : ConstructSeqRange(1, 1, SeqMax, o)
    \/ Advance(1)
    \/ \E k \in SeekKeys : Seek(1, k)

SpecSeek == InitSeek /\ [][NextSeek]_vars

\* Object e was made by a range constructor and has only been advanced and
\* repositioned since.
AdvancedAndSought(e) ==
    args[e].mode \in {"key", "seq"} /\ trail[e] \subseteq {"seek", "seek2"}

\* An advance or a seek of e: the counter stays within 0..L, and an advance
\* that finds it at 0, or finds the cursor closed, returns false and leaves
\* the cursor closed.
C8Step(e) ==
    (AdvancedAndSought(e) /\ last'.e = e /\ last'.op \in {"next", "seek"})
        => /\ en'[e].options.limit \in 0..args[e].options.limit
           /\ (last'.op = "next" /\ (en[e].options.limit = 0 \/ en[e].iterator = NULL))
                  => last'.ret = "false" /\ en'[e].iterator = NULL

\* C8: over any advances and seeks of a range enumerator made with limit L
\* the remaining limit stays within 0..L, never wrapping below zero, and the
\* advance made at remaining limit 0 closes the cursor and returns false, as
\* does every later advance.
C8_LimitStaysWithinBounds == [][\A e \in Enums : C8Step(e)]_vars

\* The stored documents of the range of a at or after key k.
AtOrAfter(a, k) ==
    {d \in st : KeyLE(a.start, d.key) /\ KeyLE(d.key, a.end) /\ KeyLE(k, d.key)}

\* The latest operation is the first seek of e, an ascending key-range
\* enumerator that was open, with limit left, to a key inside its range.
JustSought(e) ==
    /\ args[e].mode = "key"
    /\ ~args[e].options.descending
    /\ args[e].options.inclusiveStart /\ args[e].options.inclusiveEnd
    /\ trail[e] = {"seek"}
    /\ last.op = "seek" /\ last.e = e /\ last.calls > 0
    /\ en[e].options.limit > 0
    /\ KeyLE(args[e].start, last.key) /\ KeyLE(last.key, args[e].end)

C9Step(e) ==
    JustSought(e) =>
        IF AtOrAfter(args[e], last.key) # {}
        THEN (last'.op = "next" /\ last'.e = e)
                 => /\ last'.ret = "true"
                    /\ en'[e].docP # NULL
                    /\ docs'[en'[e].docP].key =
                           SortDocs("key", AtOrAfter(args[e], last.key))[1].key
        ELSE /\ en[e].iterator = NULL
             /\ en[e].docP = NULL
             /\ (last'.op = "next" /\ last'.e = e) => last'.ret = "false"

\* C9: after the first seek of an open ascending key-range enumerator to a
\* key k inside its range, the next advance returns true holding the first
\* stored key of the range at or after k; if there is none, the seek closed
\* the enumerator and the next advance returns false.
C9_SeekThenAdvance == [][\A e \in Enums : C9Step(e)]_vars

\* --------------------------------------------- ID-list enumeration (SpecList)

ListSkips == {0, 1, 2, 3}

ListOptions ==
    {Opts(s, l, d, TRUE, TRUE) : s \in ListSkips, l \in Limits, d \in BOOLEAN}

ListKeys == {<< 0 >>, << 1 >>, << 2 >>}

\* The ID lists: every list of one or two of the keys, the list of all
\* three in order, and the empty list.
IdLists ==
    {<< >>, << << 0 >>, << 1 >>, << 2 >> >>}
        \cup {<< a >> : a \in ListKeys}
        \cup {<< a, b >> : a \in ListKeys, b \in ListKeys}

ListStores == {{}, {DA, DB}, {DA, DB, DD}}

InitList == InitWith(ListStores)

NextList ==
    \/ \E ids \in IdLists, o \in ListOptions : ConstructKeyArray(1, ids, o)
    \/ Advance(1)

SpecList == InitList /\ [][NextList]_vars

\* An ID-list enumerator whose skip is within its list and that has only
\* been advanced.
ListAdvanced(e) ==
    /\ args[e].mode = "list"
    /\ args[e].options.skip <= Len(args[e].ids)
    /\ trail[e] = {}

\* The IDs an ID-list enumerator made with the arguments a yields when it
\* is advanced to its end.
ListYield(a) ==
    LET got == Drain(KeyArrayCtor(FreshWorld, 1, a.ids, a.options, << >>), 1)
    IN  [i \in 1..Len(got) |-> got[i].key]

\* The IDs object e has yielded.
Keys(e) == [i \in 1..Len(hist[e]) |-> hist[e][i].key]

\* C10 as stated: a descending ID-list enumerator yields the reversed list
\* without its first s entries, cut to at most l; no cursor is opened and
\* each advance makes at most one lookup.
C10_ReversedThenWindowed ==
    \A e \in Enums :
        (ListAdvanced(e) /\ args[e].options.descending)
        => LET o == args[e].options
               want == Take(Drop(Reverse(args[e].ids), o.skip), o.limit)
           IN  /\ IsPrefix(Keys(e), want)
               /\ AtEnd(e) => Keys(e) = want
               /\ iters = << >>
               /\ (last.op = "next" /\ last.e = e) => last.calls <= 1

\* C10, amended: a descending ID-list enumerator with skip s within the
\* list yields the reverse of what the ascending enumerator over the same
\* list, skip and limit yields (so [c,b] for [a,b,c] with skip 1); no cursor
\* is opened and each advance makes at most one lookup.
C10_WindowedThenReversed ==
    \A e \in Enums :
        (ListAdvanced(e) /\ args[e].options.descending)
        => LET want == Reverse(ListYield([args[e] EXCEPT
                                              !.options.descending = FALSE]))
           IN  /\ IsPrefix(Keys(e), want)
               /\ AtEnd(e) => Keys(e) = want
               /\ iters = << >>
               /\ (last.op = "next" /\ last.e = e) => last.calls <= 1

\* [a,b,c] with skip 1, descending, no limit has yielded [c,b] and ended.
C10_Witness ==
    /\ ListAdvanced(1)
    /\ args[1].ids = << << 0 >>, << 1 >>, << 2 >> >>
    /\ args[1].options.skip = 1
    /\ args[1].options.descending
    /\ args[1].options.limit = UINT_MAX
    /\ AtEnd(1)
    /\ Keys(1) = << << 2 >>, << 1 >> >>

\* C15: an ID-list enumerator made of the list ids, of length n, with skip
\* s <= n and limit l fetches ids[s .. min(s+l, n)) in list order when
\* ascending and in reverse order when descending, and its advances leave
\* the skip and limit counters as they were constructed.
C15_SkipLimitDirectionOnce ==
    \A e \in Enums : ListAdvanced(e) =>
        LET o == args[e].options
            n == Len(args[e].ids)
            upto == IF o.skip + o.limit < n THEN o.skip + o.limit ELSE n
            sub == [i \in 1..(upto - o.skip) |-> args[e].ids[o.skip + i]]
            want == IF o.descending
                    THEN [i \in 1..Len(sub) |-> sub[Len(sub) + 1 - i]]
                    ELSE sub
        IN  /\ IsPrefix(Keys(e), want)
            /\ AtEnd(e) => Keys(e) = want
            /\ en[e].options = o

\* [a,b,c] with skip 1 and limit 1, ascending, has yielded [b] and ended.
C15_Witness ==
    /\ ListAdvanced(1)
    /\ args[1].ids = << << 0 >>, << 1 >>, << 2 >> >>
    /\ args[1].options.skip = 1
    /\ args[1].options.limit = 1
    /\ ~args[1].options.descending
    /\ AtEnd(1)
    /\ Keys(1) = << << 1 >> >>

\* C20: an ID-list enumerator made with a skip greater than the number of
\* its IDs has touched nothing outside the list and is empty: its first
\* advance returns false.
C20_SkipPastEndIsEmpty ==
    \A e \in Enums :
        (/\ args[e].mode = "list"
         /\ args[e].options.skip > Len(args[e].ids)
         /\ trail[e] = {})
        => /\ ~ub
           /\ en[e].docIDs = << >>
           /\ hist[e] = << >>
           /\ (last.op = "next" /\ last.e = e) => last.ret = "false"

\* ------------------------------------------------ store failures (SpecFault)

FaultOptions ==
    {Opts(s, l, d, TRUE, TRUE) : s \in {0, 1}, l \in {2, UINT_MAX}, d \in BOOLEAN}

FaultLists == {<< >>, << << 0 >>, << 2 >> >>, << << 2 >>, << 0 >>, << 1 >> >>}

FaultStores == {{}, {DA, DB}}

InitFault == InitWith(FaultStores)

NextFault ==
    \/ \E o \in FaultOptions : ConstructKeyRange(1, << 0 >>, << 2 >>, o)
    \/ \E o \in FaultOptions : ConstructSeqRange(1, 1, SeqMax, o)
    \/ \E o \in FaultOptions : ConstructKeyRangeOnset(1, << 0 >>, << 2 >>, o)
    \/ \E o \in FaultOptions : ConstructSeqRangeOnset(1, 1, SeqMax, o)
    \/ \E ids \in FaultLists, o \in FaultOptions : ConstructKeyArray(1, ids, o)
    \/ Advance(1)
    \/ \E k \in {<< 0 >>, << 2 >>} : Seek(1, k)
    \/ Close(1)
    \/ Destroy(1)
    \/ Fail
    \/ Recover

SpecFault == InitFault /\ [][NextFault]_vars

\* Object e is an ID-list enumerator that has only been advanced.
ListOnly(e) ==
    args[e].mode = "list" /\ en[e].life = "alive" /\ trail[e] = {}

\* C11: an ID-list enumerator whose list, after skip and limit, has n IDs
\* returns true for each of them in list order, holding a document that
\* carries the ID, found or not, and returns false once the n IDs are
\* consumed; an advance raises an error exactly when its lookup reports a
\* status other than success and not-found.
C11_LookupMissTolerated ==
    \A e \in Enums : ListOnly(e) =>
        LET ids == en[e].docIDs
            i == en[e].curDocIndex
        IN  /\ i <= Len(ids)
            /\ Len(hist[e]) = i => Keys(e) = Take(ids, i)
            /\ (last.op = "next" /\ last.e = e) =>
                  /\ last.ret = "throw" <=> (fault /\ last.calls > 0)
                  /\ last.ret = "true" =>
                        /\ i >= 1
                        /\ en[e].docP # NULL
                        /\ docs[en[e].docP].key = ids[i]
                        /\ docs[en[e].docP].found
                               <=> \E d \in st : d.key = ids[i]
                  /\ last.ret = "false" => i = Len(ids) /\ last.calls = 0

\* Every ID of a list of two or more was yielded, one of them not stored,
\* and the advance after the last returned false.
C11_Witness ==
    /\ ListOnly(1)
    /\ AtEnd(1)
    /\ Len(en[1].docIDs) >= 2
    /\ Keys(1) = en[1].docIDs
    /\ \E i \in 1..Len(hist[1]) : \A d \in st : d.key # hist[1][i].key

\* The operation `last` is an advance or a seek of a range enumerator that
\* raised an error.
Raised ==
    /\ last.op \in {"next", "seek"}
    /\ last.ret = "throw"
    /\ args[last.e].mode \in {"key", "seq"}

\* An advance or a seek of a range enumerator that moves, seeks or fetches
\* (its cursor is open and, for an advance, its limit is not used up) while
\* the store is failing raises; a close or a destruction right after an
\* advance or a seek that raised closes the handle the object holds once,
\* frees the document it holds once, and leaves the object holding neither.
C12Step ==
    /\ (/\ last'.op \in {"next", "seek"}
        /\ args[last'.e].mode \in {"key", "seq"}
        /\ fault
        /\ en[last'.e].iterator # NULL
        /\ (last'.op = "seek" \/ en[last'.e].options.limit # 0))
           => last'.ret = "throw"
    /\ (Raised /\ last'.op \in {"close", "dtor"} /\ last'.e = last.e) =>
           LET e == last.e
               h == en[e].iterator
           IN  /\ h # NULL => iters'[h].closes = 1
               /\ last'.calls = (IF h # NULL THEN 1 ELSE 0)
               /\ last'.frees = (IF en[e].docP # NULL THEN 1 ELSE 0)
               /\ en'[e].iterator = NULL
               /\ en'[e].docP = NULL
               /\ \A i \in DOMAIN docs' : docs'[i].frees <= 1
               /\ \A g \in 1..Len(iters') : iters'[g].closes <= 1

\* C12: in range mode an advance or a seek whose store call reports a
\* status other than success and "no more entries" raises the error, and a
\* close or destruction that follows releases the cursor handle exactly once
\* and the held document at most once.
C12_FailureRaisedSafeToClose == [][C12Step]_vars

\* An advance of a range enumerator raised while it holds the document of
\* its previous advance and its cursor is open.
C12_Witness ==
    /\ Raised
    /\ last.op = "next"
    /\ fault
    /\ en[last.e].iterator # NULL
    /\ en[last.e].docP # NULL

\* A range constructor one of whose store calls fails, the opening of the
\* cursor (the store is failing already) or the seek to the maximum (the
\* store fails once the cursor is open), raises and makes no object.
C13Step ==
    (/\ last'.op = "ctor"
     /\ args'[last'.e].mode \in {"key", "seq"}
     /\ \/ fault /\ last'.calls >= 1
        \/ ~fault /\ fault' /\ last'.calls = 2)
    => /\ last'.ret = "throw"
       /\ en'[last'.e].life = "none"

\* C13: a key-range or sequence-range constructor raises, and gives no
\* enumerator, when a store call it makes, the opening of the cursor or for
\* descending the seek to the maximum, reports a store-level failure.
C13_OpenFailureRaised == [][C13Step]_vars

\* ------------------------------------------- exclusive key bounds (SpecKeys)

\* The keys of one byte: the non-empty keys shorter than the ceiling.
ShortKeys == {<< b >> : b \in 0..(ByteMod - 1)}

\* A key at the ceiling, and the empty key.
EdgeKeys == {<< >>, << 0, 0 >>, << 1, 0 >>, << 1, ByteMod - 1 >>,
             << ByteMod - 1, ByteMod - 1 >>}

KeysOptions ==
    {Opts(0, UINT_MAX, FALSE, i, j) : i \in BOOLEAN, j \in BOOLEAN}

InitKeys == InitWith({{DA, DB, DC, DD}})

NextKeys ==
    \/ \E k \in ShortKeys \cup EdgeKeys, o \in KeysOptions :
           \/ ConstructKeyRange(1, k, << >>, o)
           \/ ConstructKeyRange(1, << >>, k, o)
    \/ Advance(1)

SpecKeys == InitKeys /\ [][NextKeys]_vars

\* The keys a key is compared with: every key up to the ceiling over the
\* least and the greatest byte values.
ProbeBytes == {0, 1, ByteMod - 2, ByteMod - 1}

ProbeKeys ==
    UNION {[1..n -> ProbeBytes] : n \in 0..FDB_MAX_KEYLEN}

\* Key b is the key next after key a in the store's order.
Adjacent(a, b) ==
    KeyLT(a, b) /\ \A k \in ProbeKeys : ~(KeyLT(a, k) /\ KeyLT(k, b))

\* C14: for a non-empty bound key K shorter than the ceiling, the lower
\* bound an ascending key-range constructor opens its cursor with when the
\* start is exclusive, successor(K), is the key next after K, and the upper
\* bound it opens it with when the end is exclusive, predecessor(K), is the
\* key next before K.
C14_TransformsExact ==
    \A e \in Enums :
        (args[e].mode = "key" /\ en[e].iterator # NULL) =>
            LET a == args[e]
                it == iters[en[e].iterator]
            IN  /\ (~a.options.inclusiveStart /\ a.start \in ShortKeys)
                       => Adjacent(a.start, it.min)
                /\ (~a.options.inclusiveEnd /\ a.end \in ShortKeys)
                       => Adjacent(it.max, a.end)

\* C17: a key-range construction with an exclusive bound, for every bound
\* key of length 0 up to the ceiling, the empty key included, reads and
\* writes no byte outside its key buffer.
C17_TransformsStayInBuffer ==
    \A e \in Enums :
        (/\ args[e].mode = "key"
         /\ Len(args[e].start) \in 0..FDB_MAX_KEYLEN
         /\ Len(args[e].end) \in 0..FDB_MAX_KEYLEN) => ~ub

\* The document object e holds is a live buffer with the document at e's
\* position: the entry its cursor stands at, or the ID its list index has
\* just passed.
\* ------------------------------------------- the held document (SpecHold)

\* One enumerator of each mode over a store that does not fail: advances,
\* seeks that find an entry and seeks that find none, close, destruction.
HoldOptions ==
    {Opts(s, l, d, TRUE, TRUE) : s \in {0, 1}, l \in {1, UINT_MAX}, d \in BOOLEAN}

HoldStores == {{DA, DB, DC}}

InitHold == InitWith(HoldStores)

NextHold ==
    \/ \E o \in HoldOptions : ConstructKeyRange(1, << 0 >>, << 2 >>, o)
    \/ \E o \in HoldOptions : ConstructSeqRange(1, 1, SeqMax, o)
    \/ \E ids \in FaultLists, o \in HoldOptions : ConstructKeyArray(1, ids, o)
    \/ Advance(1)
    \/ \E k \in SeekKeys : Seek(1, k)
    \/ Close(1)
    \/ Destroy(1)

SpecHold == InitHold /\ [][NextHold]_vars

HeldIsCurrent(e) ==
    LET d == docs[en[e].docP]
    IN  /\ d.frees = 0
        /\ IF Len(en[e].docIDs) > 0
           THEN /\ en[e].curDocIndex \in 1..Len(en[e].docIDs)
                /\ d.key = en[e].docIDs[en[e].curDocIndex]
           ELSE /\ en[e].iterator # NULL
                /\ iters[en[e].iterator].closes = 0
                /\ iters[en[e].iterator].pos \in
                       1..Len(iters[en[e].iterator].items)
                /\ [key |-> d.key, seq |-> d.seq] =
                       iters[en[e].iterator].items[iters[en[e].iterator].pos]

\* C16: between operations an enumerator holds no document or the document
\* at its current position; it holds one after an advance that returned
\* true, and none after an advance that returned false, after close() and
\* after a seek on an open cursor.
C16_HeldDocumentIsCurrent ==
    /\ \A e \in Enums :
          (en[e].life = "alive" /\ en[e].docP # NULL) => HeldIsCurrent(e)
    /\ (last.op = "next" /\ last.ret = "true") => en[last.e].docP # NULL
    /\ (last.op = "next" /\ last.ret = "false") => en[last.e].docP = NULL
    /\ last.op = "close" => en[last.e].docP = NULL
    /\ (last.op = "seek" /\ last.calls > 0) => en[last.e].docP = NULL

\* A seek on an open cursor has released the document of the advance
\* before it and left the cursor open.
C16_Witness ==
    /\ last.op = "seek"
    /\ last.frees = 1
    /\ last.ret = "void"
    /\ en[last.e].iterator # NULL
    /\ en[last.e].docP = NULL

\* A seek of an object that has no open cursor returns without a store
\* call and leaves the objects, the cursors and the documents as they were.
C18Step ==
    (last'.op = "seek" /\ en[last'.e].iterator = NULL)
        => /\ last'.ret = "void"
           /\ last'.calls = 0
           /\ last'.frees = 0
           /\ en' = en
           /\ iters' = iters
           /\ docs' = docs

\* C18: seek on an enumerator with no open cursor (a closed or exhausted
\* range enumerator, an empty one, an ID-list one) makes no store call and
\* changes neither the held document nor the list index nor the skip and
\* limit counters nor the flag, nor anything else later advances depend on.
C18_SeekWithoutCursorIsNoOp == [][C18Step]_vars

\* An ID-list enumerator that holds a document was sought and holds it
\* still.
C18_Witness ==
    /\ last.op = "seek"
    /\ last.calls = 0
    /\ args[last.e].mode = "list"
    /\ en[last.e].iterator = NULL
    /\ en[last.e].docP # NULL
    /\ en[last.e].curDocIndex = 1

\* A seek of a key-range enumerator leaves its skip and limit counters as
\* they are, and after any advance or seek the enumerator has yielded no
\* more documents than the limit it was made with.
C19Step ==
    \A e \in Enums :
        (AdvancedAndSought(e) /\ args[e].mode = "key" /\ last'.e = e
         /\ last'.op \in {"next", "seek"})
        => /\ last'.op = "seek" => en'[e].options = en[e].options
           /\ Len(hist'[e]) <= args[e].options.limit

\* C19: in key-range mode seek never changes the skip and limit counters,
\* and over any interleaving of advances and seeks at most L advances return
\* true, L being the limit the enumerator was made with.
C19_SeekKeepsLimit == [][C19Step]_vars

\* A key-range enumerator that has yielded its limit of two documents was
\* sought, the seek finding an entry.
C19_Witness ==
    /\ last.op = "seek"
    /\ last.ret = "void"
    /\ args[last.e].mode = "key"
    /\ args[last.e].options.limit = 2
    /\ Len(hist[last.e]) = 2
    /\ en[last.e].options.limit = 0
    /\ en[last.e].iterator # NULL

=============================================================================
